---- MODULE Spec2Model ----
(***************************************************************************)
(* Pantograph / scissor-lift designer (src/app.js).                        *)
(*                                                                         *)
(* app.js holds two generations of the script one after the other; the     *)
(* function declarations of the second generation (lines 428-873) are the  *)
(* ones in force (a later declaration of the same name replaces an         *)
(* earlier one), so the model follows lines 428-873.                       *)
(*                                                                         *)
(* Numbers.  A JavaScript number v is represented by the integer           *)
(* v * Scale (fixed point, resolution 1/Scale), and NaN by the value NaN.  *)
(* Scale is a multiple of 8 and of 1000, so halving a rail length,         *)
(* averaging four pins and multiplying a whole length by a table sine or   *)
(* cosine (three decimals) are all exact on the lengths typed below; a     *)
(* conversion between mm and inches is rounded to the resolution.          *)
(* Lengths and angles typed by the user are taken from numeric values      *)
(* only; the stage-count field is also given empty and non-numeric text.   *)
(*                                                                         *)
(* state is the script's state object; el holds the value of the three     *)
(* length fields of the page, el("arm").value, el("base").value and        *)
(* el("top").value, which the units handler reads back.                    *)
(*                                                                         *)
(* svg is the list of children of el("viz"), in the order draw appends     *)
(* them, with coordinates in mm (the pixel transform of draw is left out). *)
(* outputObj is the object captured by the click handler updateOutputs     *)
(* last installed on el("copy"); copy is el("copy").textContent; writes    *)
(* holds the texts handed to navigator.clipboard.writeText whose promise   *)
(* has not settled; clipboard is the text on the clipboard; timers counts  *)
(* the pending setTimeout callbacks.                                       *)
(*                                                                         *)
(* Spec is the page with the units selector left on mm, SpecUnits the page *)
(* with the selector in use and fewer lengths typed; in both the copy      *)
(* button is left alone.  SpecCopy is the page with the copy button in     *)
(* use and a few of the inputs, with the event loop running every settled  *)
(* promise and every expired timer.                                        *)
(***************************************************************************)
EXTENDS Integers, Sequences, FiniteSets, TLC

VARIABLES state, el, svg, outputObj, copy, writes, clipboard, timers

vars == <<state, el, svg, outputObj, copy, writes, clipboard, timers>>

----------------------------------------------------------------------------
(* Bounds of the model *)

\* typed lengths are the multiples k * LenStep, k \in -1 .. MaxLen
MaxLen == 2

\* the copy button is clicked while fewer than MaxPending clipboard writes
\* and reset timers are pending
MaxPending == 2

----------------------------------------------------------------------------
(* const v = ...: the value is computed once and then named *)

Const(v, F(_)) == CHOOSE r \in {F(x) : x \in {v}} : TRUE

----------------------------------------------------------------------------
(* Number representation *)

Scale == 8 * 1000

LenStep == 5 * Scale

\* the representation of NaN: outside the range of every represented number
NaN == 0 - (2000 * 1000 * 1000)

IsNaN(x) == x = NaN

Num(n) == n * Scale

Abs(x) == IF x < 0 THEN 0 - x ELSE x

\* a / b rounded to the nearest integer, ties upward (b > 0)
RoundDiv(a, b) == (a \div b) + (IF 2 * (a % b) >= b THEN 1 ELSE 0)

\* fixed-point product a * b; exact when a or b is a whole number, and
\* otherwise rounded to an even multiple of the resolution, so that a length
\* converted from inches is halved exactly, as a JavaScript number is
Times(a, b) ==
    IF IsNaN(a) \/ IsNaN(b) THEN NaN
    ELSE (a \div Scale) * b + (a % Scale) * (b \div Scale)
         + 2 * RoundDiv((a % Scale) * (b % Scale), 2 * Scale)

\* fixed-point quotient a / b (b > 0)
Over(a, b) ==
    IF IsNaN(a) \/ IsNaN(b) THEN NaN
    ELSE (a \div b) * Scale + RoundDiv((a % b) * Scale, b)

\* x / 2 and x / 4 (exact on the enumerated inputs)
Half(x) == x \div 2

Quarter(x) == x \div 4

\* Math.min / Math.max of two numbers: NaN if either is NaN
MathMin(a, b) == IF IsNaN(a) \/ IsNaN(b) THEN NaN ELSE IF a < b THEN a ELSE b

MathMax(a, b) == IF IsNaN(a) \/ IsNaN(b) THEN NaN ELSE IF a > b THEN a ELSE b

\* Number(text) for the texts the stage-count field is given; a numeric text
\* is given as the number it denotes
EmptyText == NaN + 1

JunkText == NaN + 2

Number(v) == IF v = EmptyText THEN 0 ELSE IF v = JunkText THEN NaN ELSE v

----------------------------------------------------------------------------
(* Trigonometry: Math.cos(rad(deg)) and Math.sin(rad(deg)), three decimals *)

Angles == {Num(0), Num(25), Num(60), Num(90), Num(180)}

CosTable(deg) ==
    CASE deg = Num(0)   -> 1000
      [] deg = Num(25)  -> 906
      [] deg = Num(60)  -> 500
      [] deg = Num(90)  -> 0
      [] deg = Num(180) -> 0 - 1000

SinTable(deg) ==
    CASE deg = Num(0)   -> 0
      [] deg = Num(25)  -> 423
      [] deg = Num(60)  -> 866
      [] deg = Num(90)  -> 1000
      [] deg = Num(180) -> 0

MathCos(deg) == CosTable(deg) * (Scale \div 1000)

MathSin(deg) == SinTable(deg) * (Scale \div 1000)

----------------------------------------------------------------------------
(* Unit display helpers *)

MM_PER_IN == (254 * Scale) \div 10

\* toDisplay called while the state object is st
toDisplayOn(st, mm) == IF st.units = "mm" THEN mm ELSE Over(mm, MM_PER_IN)

toDisplay(mm) == toDisplayOn(state, mm)

toMM(val) == IF state.units = "mm" THEN val ELSE Times(val, MM_PER_IN)

\* fmt: the number rounded to three decimals (Math.round rounds ties upward)
fmt(val) == RoundDiv(val, Scale \div 1000) * (Scale \div 1000)

----------------------------------------------------------------------------
(* The configuration the page edits *)

Units == {"mm", "in"}

Presets == {"classic", "mirrored", "bothBaseFixed", "bothTopFixed", "custom"}

NamedPresets == {"classic", "mirrored", "bothBaseFixed", "bothTopFixed"}

LenTyped == {k * LenStep : k \in -1 .. MaxLen}

UnitsLenTyped == {MaxLen * LenStep}

NTyped == {EmptyText, JunkText, Num(1), Num(2), Num(2) + Half(Scale), Num(9)}

InitState ==
    [units |-> "mm", N |-> Num(1), arm_mm |-> Num(600), base_mm |-> Num(1200),
     top_mm |-> Num(1200), alphaDeg |-> Num(25), preset |-> "classic",
     lockX |-> TRUE]

----------------------------------------------------------------------------
(* Per-end label table and the over-constraint messages *)

\* faulty variant: bothBaseFixed labels every end fixed
constraintsFromPreset_AllFixed(p) ==
    CASE p = "classic" ->
           [baseL |-> "fixed", baseR |-> "slide", topL |-> "slide", topR |-> "fixed"]
      [] p = "mirrored" ->
           [baseL |-> "slide", baseR |-> "fixed", topL |-> "fixed", topR |-> "slide"]
      [] p = "bothBaseFixed" ->
           [baseL |-> "fixed", baseR |-> "fixed", topL |-> "fixed", topR |-> "fixed"]
      [] p = "bothTopFixed" ->
           [baseL |-> "fixed", baseR |-> "slide", topL |-> "fixed", topR |-> "fixed"]
      [] OTHER ->
           [baseL |-> "fixed", baseR |-> "slide", topL |-> "slide", topR |-> "fixed"]

\* faulty variant: the default case returns the mirrored table
constraintsFromPreset_DefaultMirrored(p) ==
    CASE p = "classic" ->
           [baseL |-> "fixed", baseR |-> "slide", topL |-> "slide", topR |-> "fixed"]
      [] p = "mirrored" ->
           [baseL |-> "slide", baseR |-> "fixed", topL |-> "fixed", topR |-> "slide"]
      [] p = "bothBaseFixed" ->
           [baseL |-> "fixed", baseR |-> "fixed", topL |-> "slide", topR |-> "fixed"]
      [] p = "bothTopFixed" ->
           [baseL |-> "fixed", baseR |-> "slide", topL |-> "fixed", topR |-> "fixed"]
      [] OTHER ->
           [baseL |-> "slide", baseR |-> "fixed", topL |-> "fixed", topR |-> "slide"]

constraintsFromPreset(p) ==
    CASE p = "classic" ->
           [baseL |-> "fixed", baseR |-> "slide", topL |-> "slide", topR |-> "fixed"]
      [] p = "mirrored" ->
           [baseL |-> "slide", baseR |-> "fixed", topL |-> "fixed", topR |-> "slide"]
      [] p = "bothBaseFixed" ->
           [baseL |-> "fixed", baseR |-> "fixed", topL |-> "slide", topR |-> "fixed"]
      [] p = "bothTopFixed" ->
           [baseL |-> "fixed", baseR |-> "slide", topL |-> "fixed", topR |-> "fixed"]
      [] OTHER ->
           [baseL |-> "fixed", baseR |-> "slide", topL |-> "slide", topR |-> "fixed"]

BaseFixedMsg ==
    [text |-> "Both base ends fixed: can bind unless the top has sufficient sliding freedom."]

TopFixedMsg ==
    [text |-> "Both top ends fixed: can bind unless the base has sufficient sliding freedom."]

OverconstrainedMsg ==
    [text |-> "Overconstrained: likely impossible without flex/compliance."]

\* true + true in JavaScript is 2
BoolToNum(b) == IF b THEN 1 ELSE 0

\* faulty variant: the base count reads the top-right label instead of the base-right
stageWarnings_WrongEnd(cons) ==
    LET baseFixed == BoolToNum(cons.baseL = "fixed") + BoolToNum(cons.topR = "fixed")
        topFixed  == BoolToNum(cons.topL = "fixed") + BoolToNum(cons.topR = "fixed")
    IN  (IF baseFixed = 2 THEN <<BaseFixedMsg>> ELSE <<>>)
        \o (IF topFixed = 2 THEN <<TopFixedMsg>> ELSE <<>>)
        \o (IF baseFixed = 2 /\ topFixed = 2 THEN <<OverconstrainedMsg>> ELSE <<>>)

stageWarnings(cons) ==
    LET baseFixed == BoolToNum(cons.baseL = "fixed") + BoolToNum(cons.baseR = "fixed")
        topFixed  == BoolToNum(cons.topL = "fixed") + BoolToNum(cons.topR = "fixed")
    IN  (IF baseFixed = 2 THEN <<BaseFixedMsg>> ELSE <<>>)
        \o (IF topFixed = 2 THEN <<TopFixedMsg>> ELSE <<>>)
        \o (IF baseFixed = 2 /\ topFixed = 2 THEN <<OverconstrainedMsg>> ELSE <<>>)

----------------------------------------------------------------------------
(* The stage solver *)

BaseRightSlider == "Base-right slider (B)"

TopRightSlider == "Top-right slider (D)"

BaseLeftSlider == "Base-left slider (A)"

TopLeftSlider == "Top-left slider (C)"

\* faulty variant: a slider exactly on a rail end is reported too
outOfRange_Inclusive(name, x, lo, hi) ==
    IF x <= lo \/ x >= hi
    THEN <<[text |-> "is outside its rail/slot range", name |-> name,
            x |-> fmt(x), lo |-> fmt(lo), hi |-> fmt(hi)]>>
    ELSE <<>>

\* faulty variant: only the right end of the rail is checked
outOfRange_RightOnly(name, x, lo, hi) ==
    IF x > hi
    THEN <<[text |-> "is outside its rail/slot range", name |-> name,
            x |-> fmt(x), lo |-> fmt(lo), hi |-> fmt(hi)]>>
    ELSE <<>>

\* faulty variant: a rail of zero or negative length is reported whatever
\* the slider's position
outOfRange_DegenerateRail(name, x, lo, hi) ==
    IF x < lo \/ x > hi \/ lo >= hi
    THEN <<[text |-> "is outside its rail/slot range", name |-> name,
            x |-> fmt(x), lo |-> fmt(lo), hi |-> fmt(hi)]>>
    ELSE <<>>

\* the messages outOfRange pushes onto warnings: one, or none
outOfRange(name, x, lo, hi) ==
    IF x < lo \/ x > hi
    THEN <<[text |-> "is outside its rail/slot range", name |-> name,
            x |-> fmt(x), lo |-> fmt(lo), hi |-> fmt(hi)]>>
    ELSE <<>>

\* clamp(val, min, max) of the first generation of the script
clamp(val, min, max) == MathMax(min, MathMin(max, val))

\* faulty variant: the sliders are clamped to their rails, as the first generation of
\* computeStage did
lockXPins_Clamped(preset, s, baseLeft, baseRight, topLeft, topRight) ==
    IF preset = "mirrored"
    THEN [xA |-> clamp(topRight - s, baseLeft, baseRight), xB |-> baseRight,
          xC |-> clamp(baseRight - s, topLeft, topRight), xD |-> topRight]
    ELSE [xA |-> baseLeft, xB |-> clamp(topLeft + s, baseLeft, baseRight),
          xC |-> topLeft, xD |-> clamp(baseLeft + s, topLeft, topRight)]

\* faulty variant: the classic layout grounds A and C at the right rail ends
lockXPins_WrongEnd(preset, s, baseLeft, baseRight, topLeft, topRight) ==
    IF preset = "mirrored"
    THEN [xA |-> topRight - s, xB |-> baseRight, xC |-> baseRight - s, xD |-> topRight]
    ELSE [xA |-> baseRight, xB |-> topRight + s, xC |-> topRight, xD |-> baseRight + s]

\* faulty variant: bothTopFixed is solved with the mirrored layout
lockXPins_TopFixedMirrored(preset, s, baseLeft, baseRight, topLeft, topRight) ==
    IF preset = "mirrored" \/ preset = "bothTopFixed"
    THEN [xA |-> topRight - s, xB |-> baseRight, xC |-> baseRight - s, xD |-> topRight]
    ELSE [xA |-> baseLeft, xB |-> topLeft + s, xC |-> topLeft, xD |-> baseLeft + s]

\* faulty variant: the pins are centered at -s/2 and +s/2, as computeStageLockX
\* of an earlier version of the script placed them
lockXPins_Centered(preset, s, baseLeft, baseRight, topLeft, topRight) ==
    [xA |-> 0 - Half(s), xB |-> Half(s), xC |-> 0 - Half(s), xD |-> Half(s)]

\* faulty variant: the mirrored layout solves the top-left slider from the top
\* rail's fixed pin
lockXPins_MirroredFromTop(preset, s, baseLeft, baseRight, topLeft, topRight) ==
    IF preset = "mirrored"
    THEN [xA |-> topRight - s, xB |-> baseRight, xC |-> topRight - s, xD |-> topRight]
    ELSE [xA |-> baseLeft, xB |-> topLeft + s, xC |-> topLeft, xD |-> baseLeft + s]

\* the pins of the vertical-only branch (state.lockX on)
lockXPins(preset, s, baseLeft, baseRight, topLeft, topRight) ==
    IF preset = "mirrored"
    THEN LET xB == baseRight
             xD == topRight
         IN  [xA |-> xD - s, xB |-> xB, xC |-> xB - s, xD |-> xD]
    ELSE LET xA == baseLeft
             xC == topLeft
         IN  [xA |-> xA, xB |-> xC + s, xC |-> xC, xD |-> xA + s]

\* faulty variant: the top slider is validated before the base slider
lockXChecks_TopFirst(preset, p, baseLeft, baseRight, topLeft, topRight) ==
    IF preset = "mirrored"
    THEN outOfRange(TopLeftSlider, p.xC, topLeft, topRight)
         \o outOfRange(BaseLeftSlider, p.xA, baseLeft, baseRight)
    ELSE outOfRange(TopRightSlider, p.xD, topLeft, topRight)
         \o outOfRange(BaseRightSlider, p.xB, baseLeft, baseRight)

\* the slider validation of the vertical-only branch, in the order of the calls
lockXChecks(preset, p, baseLeft, baseRight, topLeft, topRight) ==
    IF preset = "mirrored"
    THEN outOfRange(BaseLeftSlider, p.xA, baseLeft, baseRight)
         \o outOfRange(TopLeftSlider, p.xC, topLeft, topRight)
    ELSE outOfRange(BaseRightSlider, p.xB, baseLeft, baseRight)
         \o outOfRange(TopRightSlider, p.xD, topLeft, topRight)

\* faulty variant: the pins are returned as solved, not recentered
legacyPins_NotCentered(cons, s, baseLeftNom, baseRightNom, topLeftNom, topRightNom) ==
    LET xA1 == IF cons.baseL = "fixed" THEN baseLeftNom ELSE baseLeftNom
        xB1 == IF cons.baseR = "fixed" THEN baseRightNom ELSE baseRightNom
        xC1 == IF cons.topL = "fixed" THEN topLeftNom ELSE topLeftNom
        xD1 == IF cons.topR = "fixed" THEN topRightNom ELSE topRightNom
        xD2 == IF cons.topR = "slide" THEN xA1 + s ELSE xD1
        xA2 == IF cons.topR # "slide" /\ cons.baseL = "slide" THEN xD1 - s ELSE xA1
        xC2 == IF cons.topL = "slide" THEN xB1 + s ELSE xC1
        xB2 == IF cons.topL # "slide" /\ cons.baseR = "slide" THEN xC1 - s ELSE xB1
        center == 0
    IN  [xA |-> xA2 - center, xB |-> xB2 - center,
         xC |-> xC2 - center, xD |-> xD2 - center]

\* the pins of the earlier solver kept for state.lockX off
legacyPins(cons, s, baseLeftNom, baseRightNom, topLeftNom, topRightNom) ==
    LET xA1 == IF cons.baseL = "fixed" THEN baseLeftNom ELSE baseLeftNom
        xB1 == IF cons.baseR = "fixed" THEN baseRightNom ELSE baseRightNom
        xC1 == IF cons.topL = "fixed" THEN topLeftNom ELSE topLeftNom
        xD1 == IF cons.topR = "fixed" THEN topRightNom ELSE topRightNom
        xD2 == IF cons.topR = "slide" THEN xA1 + s ELSE xD1
        xA2 == IF cons.topR # "slide" /\ cons.baseL = "slide" THEN xD1 - s ELSE xA1
        xC2 == IF cons.topL = "slide" THEN xB1 + s ELSE xC1
        xB2 == IF cons.topL # "slide" /\ cons.baseR = "slide" THEN xC1 - s ELSE xB1
        center == Quarter(xA2 + xB2 + xC2 + xD2)
    IN  [xA |-> xA2 - center, xB |-> xB2 - center,
         xC |-> xC2 - center, xD |-> xD2 - center]

\* faulty variant: the sliders are validated only while the page shows mm
computeStageOn_ChecksInMMOnly(st, Larm, baseLen, topLen, alphaDeg, preset) ==
    LET h == Times(Larm, MathSin(alphaDeg))
        s == Times(Larm, MathCos(alphaDeg))
        cons == constraintsFromPreset(preset)
        warnings0 == stageWarnings(cons)
        baseLeft  == 0 - Half(baseLen)
        baseRight == Half(baseLen)
        topLeft   == 0 - Half(topLen)
        topRight  == Half(topLen)
        platform ==
            [xPlat |-> 0,
             baseLeft  |-> [x |-> baseLeft,  y |-> 0],
             baseRight |-> [x |-> baseRight, y |-> 0],
             topLeft   |-> [x |-> topLeft,   y |-> h],
             topRight  |-> [x |-> topRight,  y |-> h]]
    IN  IF st.lockX
        THEN LET p == lockXPins(preset, s, baseLeft, baseRight, topLeft, topRight)
             IN  [h |-> h, s |-> s,
                  A |-> [x |-> p.xA, y |-> 0],
                  B |-> [x |-> p.xB, y |-> 0],
                  C |-> [x |-> p.xC, y |-> h],
                  D |-> [x |-> p.xD, y |-> h],
                  baseSpan |-> baseLen,
                  topSpan |-> topLen,
                  platform |-> platform,
                  warnings |-> warnings0 \o
                      (IF st.units = "mm"
                       THEN lockXChecks(preset, p, baseLeft, baseRight, topLeft, topRight)
                       ELSE <<>>)]
        ELSE LET p == legacyPins(cons, s, baseLeft, baseRight, topLeft, topRight)
             IN  [h |-> h, s |-> s,
                  A |-> [x |-> p.xA, y |-> 0],
                  B |-> [x |-> p.xB, y |-> 0],
                  C |-> [x |-> p.xC, y |-> h],
                  D |-> [x |-> p.xD, y |-> h],
                  baseSpan |-> p.xB - p.xA,
                  topSpan |-> p.xD - p.xC,
                  platform |-> platform,
                  warnings |-> warnings0]

\* computeStage called while the state object is st
computeStageOn(st, Larm, baseLen, topLen, alphaDeg, preset) ==
    LET h == Times(Larm, MathSin(alphaDeg))
        s == Times(Larm, MathCos(alphaDeg))
        cons == constraintsFromPreset(preset)
        warnings0 == stageWarnings(cons)
        baseLeft  == 0 - Half(baseLen)
        baseRight == Half(baseLen)
        topLeft   == 0 - Half(topLen)
        topRight  == Half(topLen)
        platform ==
            [xPlat |-> 0,
             baseLeft  |-> [x |-> baseLeft,  y |-> 0],
             baseRight |-> [x |-> baseRight, y |-> 0],
             topLeft   |-> [x |-> topLeft,   y |-> h],
             topRight  |-> [x |-> topRight,  y |-> h]]
    IN  IF st.lockX
        THEN LET p == lockXPins(preset, s, baseLeft, baseRight, topLeft, topRight)
             IN  [h |-> h, s |-> s,
                  A |-> [x |-> p.xA, y |-> 0],
                  B |-> [x |-> p.xB, y |-> 0],
                  C |-> [x |-> p.xC, y |-> h],
                  D |-> [x |-> p.xD, y |-> h],
                  baseSpan |-> baseLen,
                  topSpan |-> topLen,
                  platform |-> platform,
                  warnings |-> warnings0 \o
                      lockXChecks(preset, p, baseLeft, baseRight, topLeft, topRight)]
        ELSE LET p == legacyPins(cons, s, baseLeft, baseRight, topLeft, topRight)
             IN  [h |-> h, s |-> s,
                  A |-> [x |-> p.xA, y |-> 0],
                  B |-> [x |-> p.xB, y |-> 0],
                  C |-> [x |-> p.xC, y |-> h],
                  D |-> [x |-> p.xD, y |-> h],
                  baseSpan |-> p.xB - p.xA,
                  topSpan |-> p.xD - p.xC,
                  platform |-> platform,
                  warnings |-> warnings0]

computeStage(Larm, baseLen, topLen, alphaDeg, preset) ==
    computeStageOn(state, Larm, baseLen, topLen, alphaDeg, preset)

----------------------------------------------------------------------------
(* The stack builder *)

\* how many times the loop  for(i = 0; i < N; i++)  runs
LoopCount(N) ==
    IF IsNaN(N) \/ N <= 0 THEN 0 ELSE (N + Scale - 1) \div Scale

\* faulty variant: the offset of copy i is (i + 1) * h
stageCopy_OffByOne(stage, i) ==
    LET yOffset == Times(Num(i + 1), stage.h)
    IN  [idx |-> i + 1,
         A |-> [x |-> stage.A.x, y |-> stage.A.y + yOffset],
         B |-> [x |-> stage.B.x, y |-> stage.B.y + yOffset],
         C |-> [x |-> stage.C.x, y |-> stage.C.y + yOffset],
         D |-> [x |-> stage.D.x, y |-> stage.D.y + yOffset],
         h |-> stage.h,
         s |-> stage.s]

\* faulty variant: the copies are stacked two stage heights apart
stageCopy_DoubleStep(stage, i) ==
    LET yOffset == Times(Num(2 * i), stage.h)
    IN  [idx |-> i + 1,
         A |-> [x |-> stage.A.x, y |-> stage.A.y + yOffset],
         B |-> [x |-> stage.B.x, y |-> stage.B.y + yOffset],
         C |-> [x |-> stage.C.x, y |-> stage.C.y + yOffset],
         D |-> [x |-> stage.D.x, y |-> stage.D.y + yOffset],
         h |-> stage.h,
         s |-> stage.s]

\* the copy pushed in iteration i (0-based)
stageCopy(stage, i) ==
    LET yOffset == Times(Num(i), stage.h)
    IN  [idx |-> i + 1,
         A |-> [x |-> stage.A.x, y |-> stage.A.y + yOffset],
         B |-> [x |-> stage.B.x, y |-> stage.B.y + yOffset],
         C |-> [x |-> stage.C.x, y |-> stage.C.y + yOffset],
         D |-> [x |-> stage.D.x, y |-> stage.D.y + yOffset],
         h |-> stage.h,
         s |-> stage.s]

\* faulty variant: stage0 is returned with the height of the whole stack
computeAllOn_Stage0Stacked(st) ==
    Const(computeStageOn(st, st.arm_mm, st.base_mm, st.top_mm,
                         st.alphaDeg, st.preset),
          LAMBDA stage :
              [stage0 |-> [stage EXCEPT !.h = Times(st.N, stage.h)],
               stages |-> [k \in 1 .. LoopCount(st.N) |-> stageCopy(stage, k - 1)],
               totalH |-> Times(st.N, stage.h)])

\* computeAll called while the state object is st
computeAllOn(st) ==
    Const(computeStageOn(st, st.arm_mm, st.base_mm, st.top_mm,
                         st.alphaDeg, st.preset),
          LAMBDA stage :
              [stage0 |-> stage,
               stages |-> [k \in 1 .. LoopCount(st.N) |-> stageCopy(stage, k - 1)],
               totalH |-> Times(st.N, stage.h)])

computeAll == computeAllOn(state)

----------------------------------------------------------------------------
(* The export payload built by updateOutputs *)

\* faulty variant: the total height is exported in mm whatever the display unit
updateOutputsOn_TotalInMM(st) ==
    LET cons == constraintsFromPreset(st.preset)
    IN  Const(computeAllOn(st), LAMBDA all : [units |-> st.units,
         inputs |->
            [stages |-> st.N,
             arm |-> toDisplayOn(st, st.arm_mm),
             baseRail |-> toDisplayOn(st, st.base_mm),
             topRail |-> toDisplayOn(st, st.top_mm),
             alphaDeg |-> st.alphaDeg,
             constraints |-> cons,
             lockX |-> st.lockX],
         outputs |->
            [stageHeight |-> toDisplayOn(st, all.stage0.h),
             stageSpanProjection |-> toDisplayOn(st, all.stage0.s),
             totalHeight |-> all.totalH,
             railEndpoints_mm |-> all.stage0.platform,
             pinCoords_mm |-> [A |-> all.stage0.A, B |-> all.stage0.B,
                               C |-> all.stage0.C, D |-> all.stage0.D]],
         warnings |-> all.stage0.warnings])

\* the object outputObj built by updateOutputs called while the state object
\* is st
updateOutputsOn(st) ==
    LET cons == constraintsFromPreset(st.preset)
    IN  Const(computeAllOn(st), LAMBDA all : [units |-> st.units,
         inputs |->
            [stages |-> st.N,
             arm |-> toDisplayOn(st, st.arm_mm),
             baseRail |-> toDisplayOn(st, st.base_mm),
             topRail |-> toDisplayOn(st, st.top_mm),
             alphaDeg |-> st.alphaDeg,
             constraints |-> cons,
             lockX |-> st.lockX],
         outputs |->
            [stageHeight |-> toDisplayOn(st, all.stage0.h),
             stageSpanProjection |-> toDisplayOn(st, all.stage0.s),
             totalHeight |-> toDisplayOn(st, all.totalH),
             railEndpoints_mm |-> all.stage0.platform,
             pinCoords_mm |-> [A |-> all.stage0.A, B |-> all.stage0.B,
                               C |-> all.stage0.C, D |-> all.stage0.D]],
         warnings |-> all.stage0.warnings])

updateOutputs == updateOutputsOn(state)

----------------------------------------------------------------------------
(* The drawing built by draw *)

line(x1, y1, x2, y2, width) ==
    [tag |-> "line", x1 |-> x1, y1 |-> y1, x2 |-> x2, y2 |-> y2, width |-> width]

joint(cx, cy) == [tag |-> "circle", cx |-> cx, cy |-> cy]

text(y, txt) == [tag |-> "text", y |-> y, txt |-> txt]

\* the two arms and the four joints appended for one stage copy
drawStage(stg) ==
    <<line(stg.A.x, stg.A.y, stg.D.x, stg.D.y, 5),
      line(stg.B.x, stg.B.y, stg.C.x, stg.C.y, 5),
      joint(stg.A.x, stg.A.y),
      joint(stg.B.x, stg.B.y),
      joint(stg.C.x, stg.C.y),
      joint(stg.D.x, stg.D.y)>>

RECURSIVE drawStages(_)
\* the loop  for(const st of stages)
drawStages(stages) ==
    IF stages = <<>> THEN <<>>
    ELSE drawStage(Head(stages)) \o drawStages(Tail(stages))

\* faulty variant: draw appends to what the svg element already holds
drawOn_NoClear(st, children) ==
    LET cleared == children
    IN  Const(computeAllOn(st), LAMBDA all :
        LET stage0 == all.stage0 IN
        cleared
        \o <<line(stage0.platform.baseLeft.x, 0, stage0.platform.baseRight.x, 0, 6),
             line(stage0.platform.topLeft.x, all.totalH,
                  stage0.platform.topRight.x, all.totalH, 6)>>
        \o drawStages(all.stages)
        \o <<text(26, [alphaDeg |-> st.alphaDeg, N |-> st.N,
                       H |-> fmt(toDisplayOn(st, all.totalH)), units |-> st.units])>>
        \o (IF Len(stage0.warnings) # 0 THEN <<text(48, stage0.warnings)>> ELSE <<>>))

\* the children of the svg element after draw, called while the state object
\* is st and the element holds children
drawOn(st, children) ==
    LET cleared == <<>>
    IN  Const(computeAllOn(st), LAMBDA all :
        LET stage0 == all.stage0 IN
        cleared
        \o <<line(stage0.platform.baseLeft.x, 0, stage0.platform.baseRight.x, 0, 6),
             line(stage0.platform.topLeft.x, all.totalH,
                  stage0.platform.topRight.x, all.totalH, 6)>>
        \o drawStages(all.stages)
        \o <<text(26, [alphaDeg |-> st.alphaDeg, N |-> st.N,
                       H |-> fmt(toDisplayOn(st, all.totalH)), units |-> st.units])>>
        \o (IF Len(stage0.warnings) # 0 THEN <<text(48, stage0.warnings)>> ELSE <<>>))

----------------------------------------------------------------------------
(* Initial state and the input handlers registered by bind.  Every handler *)
(* ends with updateOutputs(); draw(), which read state and write only the  *)
(* page.                                                                   *)

Init ==
    /\ state = InitState
    /\ el = [arm |-> fmt(toDisplay(state.arm_mm)),
             base |-> fmt(toDisplay(state.base_mm)),
             top |-> fmt(toDisplay(state.top_mm))]
    /\ outputObj = updateOutputsOn(state)
    /\ svg = drawOn(state, <<>>)
    /\ copy = "Copy JSON"
    /\ writes = <<>>
    /\ clipboard = <<>>
    /\ timers = 0

\* faulty variant: the click handler installed at start stays in force
Redisplay_FirstHandlerStays ==
    /\ outputObj' = outputObj
    /\ svg' = drawOn(state', svg)
    /\ UNCHANGED <<copy, writes, clipboard, timers>>

\* updateOutputs(); draw()  at the end of a handler, on the state the handler
\* has just written
Redisplay ==
    /\ outputObj' = updateOutputsOn(state')
    /\ svg' = drawOn(state', svg)
    /\ UNCHANGED <<copy, writes, clipboard, timers>>

\* the change handler of the units selector: the three fields are read back in
\* the old unit, then rewritten in the new one
onUnitsChange(newUnits) ==
    /\ newUnits # state.units
    /\ state' = [state EXCEPT !.arm_mm = toMM(Number(el.arm)),
                              !.base_mm = toMM(Number(el.base)),
                              !.top_mm = toMM(Number(el.top)),
                              !.units = newUnits]
    /\ el' = [arm |-> fmt(toDisplay(state.arm_mm))',
              base |-> fmt(toDisplay(state.base_mm))',
              top |-> fmt(toDisplay(state.top_mm))']
    /\ Redisplay

onNInput(v) ==
    /\ state' = [state EXCEPT !.N = MathMax(Num(1), MathMin(Num(6), Number(v)))]
    /\ UNCHANGED el
    /\ Redisplay

onArmInput(v) ==
    /\ el' = [el EXCEPT !.arm = v]
    /\ state' = [state EXCEPT !.arm_mm = toMM(Number(v))]
    /\ Redisplay

onBaseInput(v) ==
    /\ el' = [el EXCEPT !.base = v]
    /\ state' = [state EXCEPT !.base_mm = toMM(Number(v))]
    /\ Redisplay

onTopInput(v) ==
    /\ el' = [el EXCEPT !.top = v]
    /\ state' = [state EXCEPT !.top_mm = toMM(Number(v))]
    /\ Redisplay

onAlphaInput(v) ==
    /\ state' = [state EXCEPT !.alphaDeg = Number(v)]
    /\ UNCHANGED el
    /\ Redisplay

onPresetChange(p) ==
    /\ state' = [state EXCEPT !.preset = p]
    /\ UNCHANGED el
    /\ Redisplay

onLockXChange(checked) ==
    /\ state' = [state EXCEPT !.lockX = checked]
    /\ UNCHANGED el
    /\ Redisplay

\* the page with the units selector left on mm
Next ==
    \/ \E v \in NTyped : onNInput(v)
    \/ \E v \in LenTyped : onArmInput(v)
    \/ \E v \in LenTyped : onBaseInput(v)
    \/ \E v \in LenTyped : onTopInput(v)
    \/ \E v \in Angles : onAlphaInput(v)
    \/ \E p \in Presets : onPresetChange(p)
    \/ \E checked \in BOOLEAN : onLockXChange(checked)

Spec == Init /\ [][Next]_vars

\* the page with the units selector in use; the lengths typed are fewer
NextUnits ==
    \/ \E newUnits \in Units : onUnitsChange(newUnits)
    \/ \E v \in NTyped : onNInput(v)
    \/ \E v \in UnitsLenTyped : onArmInput(v)
    \/ \E v \in UnitsLenTyped : onBaseInput(v)
    \/ \E v \in UnitsLenTyped : onTopInput(v)
    \/ \E v \in Angles : onAlphaInput(v)
    \/ \E p \in Presets : onPresetChange(p)
    \/ \E checked \in BOOLEAN : onLockXChange(checked)

SpecUnits == Init /\ [][NextUnits]_vars

----------------------------------------------------------------------------
(* The copy button: the click handler installed by updateOutputs, the      *)
(* settling of navigator.clipboard.writeText and the timer that resets the *)
(* label.                                                                  *)

\* JSON.stringify writes a number that is NaN as null
JSONNull == NaN - 1

JSONnumber(v) == IF IsNaN(v) THEN JSONNull ELSE v

JSONpoint(p) == [x |-> JSONnumber(p.x), y |-> JSONnumber(p.y)]

\* JSON.stringify(outputObj, null, 2): the text, given by what it parses to
JSONstringify(obj) ==
    [units |-> obj.units,
     inputs |->
        [stages |-> JSONnumber(obj.inputs.stages),
         arm |-> JSONnumber(obj.inputs.arm),
         baseRail |-> JSONnumber(obj.inputs.baseRail),
         topRail |-> JSONnumber(obj.inputs.topRail),
         alphaDeg |-> JSONnumber(obj.inputs.alphaDeg),
         constraints |-> obj.inputs.constraints,
         lockX |-> obj.inputs.lockX],
     outputs |->
        [stageHeight |-> JSONnumber(obj.outputs.stageHeight),
         stageSpanProjection |-> JSONnumber(obj.outputs.stageSpanProjection),
         totalHeight |-> JSONnumber(obj.outputs.totalHeight),
         railEndpoints_mm |->
            [xPlat |-> JSONnumber(obj.outputs.railEndpoints_mm.xPlat),
             baseLeft |-> JSONpoint(obj.outputs.railEndpoints_mm.baseLeft),
             baseRight |-> JSONpoint(obj.outputs.railEndpoints_mm.baseRight),
             topLeft |-> JSONpoint(obj.outputs.railEndpoints_mm.topLeft),
             topRight |-> JSONpoint(obj.outputs.railEndpoints_mm.topRight)],
         pinCoords_mm |->
            [A |-> JSONpoint(obj.outputs.pinCoords_mm.A),
             B |-> JSONpoint(obj.outputs.pinCoords_mm.B),
             C |-> JSONpoint(obj.outputs.pinCoords_mm.C),
             D |-> JSONpoint(obj.outputs.pinCoords_mm.D)]],
     warnings |-> obj.warnings]

\* the sequence without its i-th element
Without(seq, i) == SubSeq(seq, 1, i - 1) \o SubSeq(seq, i + 1, Len(seq))

\* a click on the copy button: the handler in force runs up to its await,
\* handing the text of the object it captured to writeText
onCopyClick ==
    /\ Len(writes) + timers < MaxPending
    /\ writes' = Append(writes, JSONstringify(outputObj))
    /\ UNCHANGED <<state, el, svg, outputObj, copy, clipboard, timers>>

\* the promise of a pending writeText is fulfilled: the text is on the
\* clipboard and the handler continues after its await
writeTextFulfilled(i) ==
    /\ i \in 1 .. Len(writes)
    /\ clipboard' = <<writes[i]>>
    /\ writes' = Without(writes, i)
    /\ copy' = "Copied!"
    /\ timers' = timers + 1
    /\ UNCHANGED <<state, el, svg, outputObj>>

\* the promise of a pending writeText is rejected: the handler's catch shows
\* an alert
writeTextRejected(i) ==
    /\ i \in 1 .. Len(writes)
    /\ writes' = Without(writes, i)
    /\ UNCHANGED <<state, el, svg, outputObj, copy, clipboard, timers>>

\* a timer set after a fulfilled write expires
onTimeout ==
    /\ timers > 0
    /\ timers' = timers - 1
    /\ copy' = "Copy JSON"
    /\ UNCHANGED <<state, el, svg, outputObj, writes, clipboard>>

\* the stage counts typed on the page with the copy button in use
CopyNTyped == {JunkText, Num(2)}

\* the page with the copy button in use
NextCopy ==
    \/ \E v \in CopyNTyped : onNInput(v)
    \/ \E checked \in BOOLEAN : onLockXChange(checked)
    \/ onCopyClick
    \/ \E i \in 1 .. MaxPending : writeTextFulfilled(i)
    \/ \E i \in 1 .. MaxPending : writeTextRejected(i)
    \/ onTimeout

\* the event loop runs the callback of every expired timer
SpecCopy == Init /\ [][NextCopy]_vars /\ WF_vars(onTimeout)

----------------------------------------------------------------------------
(* Vocabulary of the properties *)

\* the single stage of the current configuration, as computeAll solves it
Stage0 == computeAll.stage0

IsRangeMsg(w) == w.text = "is outside its rail/slot range"

IsOverMsg(w) == ~IsRangeMsg(w)

RangeMsgs(ws) == SelectSeq(ws, IsRangeMsg)

OverMsgs(ws) == SelectSeq(ws, IsOverMsg)

\* the out-of-range messages of ws that name the given pin
MsgsFor(ws, name) ==
    LET Names(w) == IsRangeMsg(w) /\ w.name = name
    IN  SelectSeq(ws, Names)

\* x lies strictly left of lo or strictly right of hi
Outside(x, lo, hi) == x < lo \/ x > hi

\* h*h + s*s = L*L for a whole length L, to the resolution of the sine and
\* cosine table (both sides divided by the square of the whole length)
Pythagorean(h, s, L) ==
    LET n == Abs(L) \div Scale
    IN  IF n = 0 THEN h = 0 /\ s = 0
        ELSE /\ h % n = 0
             /\ s % n = 0
             /\ Abs((h \div n) * (h \div n) + (s \div n) * (s \div n) - Scale * Scale)
                    <= (Scale * Scale) \div 500

\* the base-rail and the top-rail slider of a preset, with their pins
BaseSliderName(preset) == IF preset = "mirrored" THEN BaseLeftSlider ELSE BaseRightSlider

TopSliderName(preset) == IF preset = "mirrored" THEN TopLeftSlider ELSE TopRightSlider

BaseSliderX(st, preset) == IF preset = "mirrored" THEN st.A.x ELSE st.B.x

TopSliderX(st, preset) == IF preset = "mirrored" THEN st.C.x ELSE st.D.x

----------------------------------------------------------------------------
(* C1 *)

\* C1: whatever the configuration and whatever state.lockX, both arms of the
\* solved stage have length armLength: |D.x - A.x| = |B.x - C.x| = |s|,
\* D.y - A.y = C.y - B.y = h, and h*h + s*s = armLength*armLength.
C1_ArmLengthAnyLockX ==
    LET st == Stage0
    IN  /\ Abs(st.D.x - st.A.x) = Abs(st.s)
        /\ Abs(st.B.x - st.C.x) = Abs(st.s)
        /\ st.D.y - st.A.y = st.h
        /\ st.C.y - st.B.y = st.h
        /\ Pythagorean(st.h, st.s, state.arm_mm)

----------------------------------------------------------------------------
(* C2 *)

\* the grounding of the claim: mirrored grounds B and D at the right rail ends,
\* every other preset grounds A and C at the left rail ends
Grounded(st, preset, baseLen, topLen) ==
    IF preset = "mirrored"
    THEN st.B.x = Half(baseLen) /\ st.D.x = Half(topLen)
    ELSE st.A.x = 0 - Half(baseLen) /\ st.C.x = 0 - Half(topLen)

\* C2 as stated: computeStage grounds the pins of the preset at their rail
\* ends exactly, whatever the arm length and angle.
C2_GroundingAlways == Grounded(Stage0, state.preset, state.base_mm, state.top_mm)

\* C2 amended: with state.lockX on, mirrored returns B.x = baseRailLength/2 and
\* D.x = topRailLength/2, and every other preset returns A.x = -baseRailLength/2
\* and C.x = -topRailLength/2, exactly.
C2_GroundingLockX ==
    state.lockX => Grounded(Stage0, state.preset, state.base_mm, state.top_mm)

\* both layouts are solved on rails of different lengths, arm not flat on zero
C2_Witness ==
    /\ state.lockX
    /\ state.preset = "mirrored"
    /\ state.base_mm # state.top_mm
    /\ Stage0.s # 0
    /\ Stage0.B.x = Half(state.base_mm)
    /\ Stage0.A.x # 0 - Half(state.base_mm)

----------------------------------------------------------------------------
(* C3 *)

\* the returned sliders are the solved values
SlidersAsSolved(st, preset) ==
    IF preset = "mirrored"
    THEN st.A.x = st.D.x - st.s /\ st.C.x = st.B.x - st.s
    ELSE st.D.x = st.A.x + st.s /\ st.B.x = st.C.x + st.s

\* C3 as stated: a slider pin is never clamped, its returned X is the solved
\* value (mirrored: A.x = D.x - s, C.x = B.x - s; otherwise D.x = A.x + s,
\* B.x = C.x + s).
C3_NeverClampedAlways == SlidersAsSolved(Stage0, state.preset)

\* C3 amended: with state.lockX on a slider pin is never clamped: its returned
\* X is the solved value also when an out-of-range warning is emitted for it,
\* and then that X lies outside its rail.
C3_NeverClampedLockX ==
    state.lockX =>
        LET st == Stage0
            pl == st.platform
        IN  /\ SlidersAsSolved(st, state.preset)
            /\ MsgsFor(st.warnings, BaseSliderName(state.preset)) # <<>> =>
                   Outside(BaseSliderX(st, state.preset), pl.baseLeft.x, pl.baseRight.x)
            /\ MsgsFor(st.warnings, TopSliderName(state.preset)) # <<>> =>
                   Outside(TopSliderX(st, state.preset), pl.topLeft.x, pl.topRight.x)

\* a warned slider is returned beyond the right end of its rail
C3_Witness ==
    /\ state.lockX
    /\ state.preset = "classic"
    /\ state.base_mm > 0
    /\ MsgsFor(Stage0.warnings, BaseRightSlider) # <<>>
    /\ Stage0.B.x > Half(state.base_mm)
    /\ Stage0.B.x = Stage0.C.x + Stage0.s

----------------------------------------------------------------------------
(* C4 *)

\* one out-of-range message for each slider that is off its own rail, none for
\* a slider on it (ends included), and none for any other pin
RangeChecked(st, preset) ==
    LET pl == st.platform
        baseOff == Outside(BaseSliderX(st, preset), pl.baseLeft.x, pl.baseRight.x)
        topOff  == Outside(TopSliderX(st, preset), pl.topLeft.x, pl.topRight.x)
    IN  /\ Len(MsgsFor(st.warnings, BaseSliderName(preset))) = BoolToNum(baseOff)
        /\ Len(MsgsFor(st.warnings, TopSliderName(preset))) = BoolToNum(topOff)
        /\ Len(RangeMsgs(st.warnings)) = BoolToNum(baseOff) + BoolToNum(topOff)

\* C4 as stated: an out-of-range warning is emitted for a slider pin if and
\* only if its X is strictly left of the left end or strictly right of the
\* right end of its own rail; a slider exactly on a rail end gives no warning;
\* at most one such warning per slider.
C4_RangeCheckAlways == RangeChecked(Stage0, state.preset)

\* C4 amended: the same, with state.lockX on.
C4_RangeCheckLockX == state.lockX => RangeChecked(Stage0, state.preset)

\* on rails of lengths >= 0 the base slider sits exactly on an end of its rail
\* and is not warned about, while the top slider is off its rail and is
C4_Witness ==
    /\ state.lockX
    /\ state.preset = "classic"
    /\ state.base_mm > 0
    /\ state.top_mm >= 0
    /\ Stage0.B.x \in {Half(state.base_mm), 0 - Half(state.base_mm)}
    /\ MsgsFor(Stage0.warnings, BaseRightSlider) = <<>>
    /\ Len(MsgsFor(Stage0.warnings, TopRightSlider)) = 1

----------------------------------------------------------------------------
(* C5 *)

\* the place of a message in the fixed order of the list
Rank(w) ==
    CASE w = BaseFixedMsg -> 1
      [] w = TopFixedMsg -> 2
      [] w = OverconstrainedMsg -> 3
      [] IsRangeMsg(w) /\ w.name \in {BaseLeftSlider, BaseRightSlider} -> 4
      [] IsRangeMsg(w) /\ w.name \in {TopLeftSlider, TopRightSlider} -> 5
      [] OTHER -> 0

\* C5: in the warnings list every over-constraint message precedes every
\* out-of-range message, the over-constraint messages come in the order
\* base-both-fixed, top-both-fixed, fully-over-constrained, and the base-slider
\* out-of-range message precedes the top-slider one.
C5_WarningOrder ==
    LET ws == Stage0.warnings
    IN  /\ \A i \in DOMAIN ws : Rank(ws[i]) > 0
        /\ \A i, j \in DOMAIN ws : i < j => Rank(ws[i]) < Rank(ws[j])

\* an over-constraint message followed by both out-of-range messages
C5_Witness ==
    LET ws == Stage0.warnings
    IN  /\ Len(ws) = 3
        /\ IsOverMsg(ws[1])
        /\ IsRangeMsg(ws[2])
        /\ IsRangeMsg(ws[3])

----------------------------------------------------------------------------
(* C6 *)

\* C6: the over-constraint messages depend only on the named preset:
\* bothBaseFixed gives the base message and bothTopFixed the top message for
\* every arm, rails and angle, with or without out-of-range warnings; classic
\* and mirrored give no over-constraint message.
C6_OverConstraintByPreset ==
    LET ws == Stage0.warnings
    IN  /\ state.preset = "bothBaseFixed" =>
               \E i \in DOMAIN ws : ws[i] = BaseFixedMsg
        /\ state.preset = "bothTopFixed" =>
               \E i \in DOMAIN ws : ws[i] = TopFixedMsg
        /\ state.preset \in {"classic", "mirrored"} => OverMsgs(ws) = <<>>

\* the base message is reported next to an out-of-range warning
C6_Witness ==
    /\ state.preset = "bothBaseFixed"
    /\ OverMsgs(Stage0.warnings) = <<BaseFixedMsg>>
    /\ RangeMsgs(Stage0.warnings) # <<>>

----------------------------------------------------------------------------
(* C7 *)

\* the stage the current lengths and angle give under preset p
StageFor(p) ==
    computeStage(state.arm_mm, state.base_mm, state.top_mm, state.alphaDeg, p)

\* C7 as stated: some constraintPreset value makes computeStage return all
\* three over-constraint messages together.
C7_AllThreeForSomePreset ==
    \E p \in Presets :
        OverMsgs(StageFor(p).warnings)
            = <<BaseFixedMsg, TopFixedMsg, OverconstrainedMsg>>

\* C7 amended: no constraintPreset value makes computeStage return the three
\* over-constraint messages together: bothBaseFixed returns only the base
\* message, bothTopFixed only the top message, and every other value none.
C7_AtMostOneOverConstraint ==
    \A p \in Presets :
        OverMsgs(StageFor(p).warnings) =
            CASE p = "bothBaseFixed" -> <<BaseFixedMsg>>
              [] p = "bothTopFixed" -> <<TopFixedMsg>>
              [] OTHER -> <<>>

\* a preset that fixes both ends of a rail reports one message only
C7_Witness ==
    /\ state.preset = "bothTopFixed"
    /\ OverMsgs(Stage0.warnings) = <<TopFixedMsg>>
    /\ Len(Stage0.warnings) = 1

----------------------------------------------------------------------------
(* C8 *)

\* C8: a preset value outside {classic, mirrored, bothBaseFixed, bothTopFixed}
\* gives exactly the result of classic on the same other inputs (h, s, pins,
\* spans, rail endpoints, warnings) and the same per-end label table.
C8_UnknownPresetIsClassic ==
    state.preset \notin NamedPresets =>
        /\ Stage0 = StageFor("classic")
        /\ constraintsFromPreset(state.preset) = constraintsFromPreset("classic")

\* an unrecognized preset is solved with a slider off its rail
C8_Witness ==
    /\ state.preset \notin NamedPresets
    /\ state.lockX
    /\ RangeMsgs(Stage0.warnings) # <<>>

----------------------------------------------------------------------------
(* C9 *)

\* st is the classic result cl with over-constraint messages put at the head of
\* the warnings list, and differs from it in nothing else
ClassicButForHead(st, cl) ==
    /\ st.h = cl.h
    /\ st.s = cl.s
    /\ st.A = cl.A
    /\ st.B = cl.B
    /\ st.C = cl.C
    /\ st.D = cl.D
    /\ st.baseSpan = cl.baseSpan
    /\ st.topSpan = cl.topSpan
    /\ RangeMsgs(st.warnings) = RangeMsgs(cl.warnings)
    /\ st.warnings = OverMsgs(st.warnings) \o cl.warnings
    /\ [st EXCEPT !.warnings = cl.warnings] = cl

\* C9 as stated: for the same arm, rails and angle, bothBaseFixed and
\* bothTopFixed return the h, s, pins, spans and out-of-range warnings of
\* classic, and differ from it only by over-constraint messages at the head of
\* the warnings list.
C9_SameAsClassicAlways ==
    state.preset \in {"bothBaseFixed", "bothTopFixed"} =>
        ClassicButForHead(Stage0, StageFor("classic"))

\* C9 amended: this holds for both presets with state.lockX on, and for
\* bothBaseFixed also with state.lockX off.
C9_SameAsClassicLockX ==
    /\ state.preset \in {"bothBaseFixed", "bothTopFixed"}
    /\ state.lockX \/ state.preset = "bothBaseFixed"
    => ClassicButForHead(Stage0, StageFor("classic"))

\* bothTopFixed is solved as classic, sliders off their rails included
C9_Witness ==
    /\ state.preset = "bothTopFixed"
    /\ state.lockX
    /\ Stage0.s # 0
    /\ Len(RangeMsgs(Stage0.warnings)) = 2
    /\ Stage0.warnings # StageFor("classic").warnings

----------------------------------------------------------------------------
(* C10 *)

\* the pin of a copy is the single-stage pin raised by i * h
Raised(pin, pin0, i, h) == pin.x = pin0.x /\ pin.y = pin0.y + i * h

\* C10: the stage copy at 0-based position i has the x of every single-stage
\* pin, its y plus i * h, and the h and s of the single stage; with N = 1 the
\* only copy has the single-stage pins.
C10_Stacking ==
    LET all == computeAll
        st == all.stage0
    IN  /\ \A k \in DOMAIN all.stages :
              LET c == all.stages[k]
              IN  /\ Raised(c.A, st.A, k - 1, st.h)
                  /\ Raised(c.B, st.B, k - 1, st.h)
                  /\ Raised(c.C, st.C, k - 1, st.h)
                  /\ Raised(c.D, st.D, k - 1, st.h)
                  /\ c.h = st.h
                  /\ c.s = st.s
        /\ state.N = Num(1) =>
              /\ Len(all.stages) = 1
              /\ all.stages[1].A = st.A
              /\ all.stages[1].B = st.B
              /\ all.stages[1].C = st.C
              /\ all.stages[1].D = st.D

\* six copies of a stage of height h > 0
C10_Witness ==
    LET all == computeAll
    IN  /\ Len(all.stages) = 6
        /\ all.stage0.h > 0
        /\ all.stages[6].C.y = 6 * all.stage0.h

----------------------------------------------------------------------------
(* C11 *)

\* the stage count is a whole number
IsWhole(n) == ~IsNaN(n) /\ n % Scale = 0

\* C11: computeAll returns exactly N stage copies with idx 1..N in increasing
\* order and totalH = N*h, and the top pins C and D of the last copy have
\* y = totalH, the height at which draw puts the overall top rail between
\* x = -topRailLength/2 and x = +topRailLength/2.
C11_ExactlyNCopies ==
    LET all == computeAll
        n == Len(all.stages)
    IN  /\ Num(n) = state.N
        /\ \A k \in DOMAIN all.stages : all.stages[k].idx = k
        /\ all.totalH = Times(state.N, all.stage0.h)
        /\ n >= 1
        /\ all.stages[n].C.y = all.totalH
        /\ all.stages[n].D.y = all.totalH
        /\ all.stage0.platform.topLeft.x = 0 - Half(state.top_mm)
        /\ all.stage0.platform.topRight.x = Half(state.top_mm)

----------------------------------------------------------------------------
(* C12 *)

\* C12: for every input, preset and value of state.lockX, computeStage returns
\* baseSpan = baseRailLength and topSpan = topRailLength, and the rail
\* endpoints at x = -length/2 and x = +length/2 of each rail.
C12_RailsRigidAnyLockX ==
    LET st == Stage0
    IN  /\ st.baseSpan = state.base_mm
        /\ st.topSpan = state.top_mm
        /\ st.platform.baseLeft.x = 0 - Half(state.base_mm)
        /\ st.platform.baseRight.x = Half(state.base_mm)
        /\ st.platform.topLeft.x = 0 - Half(state.top_mm)
        /\ st.platform.topRight.x = Half(state.top_mm)

----------------------------------------------------------------------------
(* C13 *)

StageFields ==
    {"h", "s", "A", "B", "C", "D", "baseSpan", "topSpan", "platform", "warnings"}

IsPoint(p) == DOMAIN p = {"x", "y"} /\ ~IsNaN(p.x) /\ ~IsNaN(p.y)

\* the configuration asks for no message: the preset fixes both ends of no
\* rail, and each slider lies on its rail
NothingToReport(st, preset) ==
    /\ preset \notin {"bothBaseFixed", "bothTopFixed"}
    /\ ~Outside(BaseSliderX(st, preset), st.platform.baseLeft.x, st.platform.baseRight.x)
    /\ ~Outside(TopSliderX(st, preset), st.platform.topLeft.x, st.platform.topRight.x)

\* C13: for every input, zero and negative armLength and rail lengths and any
\* angle and preset included, computeStage returns a complete result: numbers
\* h, s, baseSpan and topSpan, the four pins, and a warnings list, which is
\* the empty list when there is nothing to report; infeasible geometry shows
\* in the warnings only.
C13_AlwaysCompleteResult ==
    LET st == Stage0
    IN  /\ DOMAIN st = StageFields
        /\ ~IsNaN(st.h)
        /\ ~IsNaN(st.s)
        /\ ~IsNaN(st.baseSpan)
        /\ ~IsNaN(st.topSpan)
        /\ IsPoint(st.A)
        /\ IsPoint(st.B)
        /\ IsPoint(st.C)
        /\ IsPoint(st.D)
        /\ DOMAIN st.warnings = 1 .. Len(st.warnings)
        /\ \A i \in DOMAIN st.warnings : Rank(st.warnings[i]) > 0
        /\ NothingToReport(st, state.preset) => st.warnings = <<>>

\* a negative arm on rails of length zero is solved, and nothing is reported
C13_Witness ==
    /\ state.arm_mm < 0
    /\ state.base_mm = 0
    /\ state.top_mm = 0
    /\ Stage0.h # 0
    /\ Stage0.warnings = <<>>

----------------------------------------------------------------------------
(* C14 *)

\* a step leaves the five fields of the Configuration as they were
SameConfiguration ==
    /\ state'.arm_mm = state.arm_mm
    /\ state'.base_mm = state.base_mm
    /\ state'.top_mm = state.top_mm
    /\ state'.alphaDeg = state.alphaDeg
    /\ state'.preset = state.preset

\* the warnings list computeStage returns while the state object is st
SolverWarningsOn(st) ==
    computeStageOn(st, st.arm_mm, st.base_mm, st.top_mm, st.alphaDeg,
                   st.preset).warnings

\* C14 as stated: two recomputations on equal armLength, baseRailLength,
\* topRailLength, angleDeg and constraintPreset show the same warnings list in
\* the same order; neither state.lockX nor state.units nor anything else
\* influences it.
C14_WarningsByConfigOnly ==
    [][SameConfiguration => SolverWarningsOn(state') = SolverWarningsOn(state)]_vars

\* C14 amended: two recomputations on equal armLength, baseRailLength,
\* topRailLength, angleDeg, constraintPreset and state.lockX show the same
\* warnings list in the same order; state.units and state.N do not influence
\* it.
C14_WarningsByConfigAndLockX ==
    [][SameConfiguration /\ state'.lockX = state.lockX
           => SolverWarningsOn(state') = SolverWarningsOn(state)]_vars

\* the page shows inches and several stages, and the list holds an
\* over-constraint message and out-of-range messages
C14_Witness ==
    /\ state.units = "in"
    /\ state.N = Num(6)
    /\ state.lockX
    /\ OverMsgs(Stage0.warnings) # <<>>
    /\ Len(RangeMsgs(Stage0.warnings)) = 2

----------------------------------------------------------------------------
(* C16 *)

\* C16: after any sequence of input events, text typed in the N field that is
\* not an integer, is empty or is not a number included, state.N is an integer
\* in [1, 6] whenever a recomputation runs.
C16_NIsIntegerInRange ==
    /\ IsWhole(state.N)
    /\ Num(1) <= state.N
    /\ state.N <= Num(6)

----------------------------------------------------------------------------
(* C17 *)

----------------------------------------------------------------------------
(* C18 *)

SamePins(c, d) == c.A = d.A /\ c.B = d.B /\ c.C = d.C /\ c.D = d.D

\* C18: at angleDeg = 0, where h = 0 and s = armLength, all four pins have
\* y = 0, totalHeight is 0 for every stage count, every stacked copy has the
\* pin coordinates of the first, and the slider pins are range-checked like
\* for any other value of s (which is: in the vertical-only branch, C4).
C18_FlatStage ==
    state.alphaDeg = Num(0) =>
        LET all == computeAll
            st == all.stage0
        IN  /\ st.h = 0
            /\ st.s = state.arm_mm
            /\ st.A.y = 0
            /\ st.B.y = 0
            /\ st.C.y = 0
            /\ st.D.y = 0
            /\ all.totalH = 0
            /\ \A k \in DOMAIN all.stages : SamePins(all.stages[k], all.stages[1])
            /\ \A k \in DOMAIN all.stages : SamePins(all.stages[k], st)
            /\ state.lockX => RangeChecked(st, state.preset)

----------------------------------------------------------------------------
(* C19 *)

\* classic on two rails of the same length R >= 0
EqualRailsClassic ==
    /\ state.preset = "classic"
    /\ state.base_mm = state.top_mm
    /\ state.base_mm >= 0

\* no out-of-range message when 0 <= s <= R, else one for B, then one for D
BothOrNone(st, R) ==
    LET ws == RangeMsgs(st.warnings)
    IN  IF 0 <= st.s /\ st.s <= R
        THEN ws = <<>>
        ELSE /\ Len(ws) = 2
             /\ ws[1].name = BaseRightSlider
             /\ ws[2].name = TopRightSlider

\* C19 as stated: with both rails of the same length R >= 0 and preset
\* classic, computeStage emits no out-of-range warning exactly when
\* 0 <= s <= R, and otherwise (s > R or s < 0) two, for base slider B and for
\* top slider D, in that order.
C19_BothOrNoneAlways == EqualRailsClassic => BothOrNone(Stage0, state.base_mm)

\* C19 amended: the same, with state.lockX on.
C19_BothOrNoneLockX ==
    state.lockX /\ EqualRailsClassic => BothOrNone(Stage0, state.base_mm)

\* a negative projection puts both sliders off the left ends of rails of
\* positive length
C19_Witness ==
    /\ state.lockX
    /\ EqualRailsClassic
    /\ state.base_mm > 0
    /\ Stage0.s < 0
    /\ Stage0.B.x < 0 - Half(state.base_mm)
    /\ Len(RangeMsgs(Stage0.warnings)) = 2

----------------------------------------------------------------------------
(* C20 *)

\* a length in mm, in the unit the page shows
InDisplayUnit(mm) == IF state.units = "in" THEN Over(mm, MM_PER_IN) ELSE mm

\* C20: the export payload built by updateOutputs holds the solver's warnings
\* list in the same order, the four pins of the first stage, h, s and N*h
\* converted to the display unit as stageHeight, stageSpanProjection and
\* totalHeight, and constraintsFromPreset of the current preset as the per-end
\* labels.
C20_PayloadIsSolverOutput ==
    LET out == updateOutputs
        st == Stage0
    IN  /\ out.warnings = st.warnings
        /\ out.outputs.pinCoords_mm = [A |-> st.A, B |-> st.B, C |-> st.C, D |-> st.D]
        /\ out.outputs.stageHeight = InDisplayUnit(st.h)
        /\ out.outputs.stageSpanProjection = InDisplayUnit(st.s)
        /\ out.outputs.totalHeight = InDisplayUnit(Times(state.N, st.h))
        /\ out.inputs.constraints = constraintsFromPreset(state.preset)

\* a payload in inches, of several stages, with warnings of both kinds
C20_Witness ==
    LET out == updateOutputs
    IN  /\ out.units = "in"
        /\ state.N = Num(6)
        /\ Stage0.h > 0
        /\ out.outputs.stageHeight # Stage0.h
        /\ out.outputs.totalHeight > out.outputs.stageHeight
        /\ OverMsgs(out.warnings) # <<>>
        /\ RangeMsgs(out.warnings) # <<>>

----------------------------------------------------------------------------
(* C21 *)

\* C21: a change event of the units selector keeps the internal lengths: in
\* every step that changes state.units, state.arm_mm, state.base_mm and
\* state.top_mm are what they were before the step.
C21_UnitsChangeKeepsLengths ==
    [][state'.units # state.units =>
           /\ state'.arm_mm = state.arm_mm
           /\ state'.base_mm = state.base_mm
           /\ state'.top_mm = state.top_mm]_vars

----------------------------------------------------------------------------
(* C22 *)

IsRail(e) == e.tag = "line" /\ e.width = 6

IsArm(e) == e.tag = "line" /\ e.width = 5

IsJoint(e) == e.tag = "circle"

IsText(e) == e.tag = "text"

\* C22: after every sequence of input events the svg element holds what draw
\* builds from empty for the current state: the 2 rail lines of the current
\* rail endpoints, then for every copy of computeAll().stages, in order, its 2
\* arm lines A-D and B-C and its 4 joints at A, B, C, D, and besides them
\* only the one or two text elements of the same recomputation.
C22_DrawingIsLatestAssembly ==
    LET all == computeAll
        n == Len(all.stages)
        pl == all.stage0.platform
        pin(stg, j) == IF j = 0 THEN stg.A ELSE IF j = 1 THEN stg.B
                       ELSE IF j = 2 THEN stg.C ELSE stg.D
    IN  /\ SelectSeq(svg, IsRail) =
               <<line(pl.baseLeft.x, 0, pl.baseRight.x, 0, 6),
                 line(pl.topLeft.x, all.totalH, pl.topRight.x, all.totalH, 6)>>
        /\ SelectSeq(svg, IsArm) =
               [i \in 1 .. 2 * n |->
                   LET stg == all.stages[(i + 1) \div 2]
                   IN  IF i % 2 = 1
                       THEN line(stg.A.x, stg.A.y, stg.D.x, stg.D.y, 5)
                       ELSE line(stg.B.x, stg.B.y, stg.C.x, stg.C.y, 5)]
        /\ SelectSeq(svg, IsJoint) =
               [i \in 1 .. 4 * n |->
                   LET p == pin(all.stages[(i + 3) \div 4], (i - 1) % 4)
                   IN  joint(p.x, p.y)]
        /\ Len(SelectSeq(svg, IsText)) \in {1, 2}
        /\ Len(svg) = 2 + 2 * n + 4 * n + Len(SelectSeq(svg, IsText))
        /\ svg = drawOn(state, <<>>)

\* the drawing of two copies in inches, after a drawing of more copies or of
\* one in mm
C22_Witness ==
    /\ state.units = "in"
    /\ state.N = Num(2)
    /\ state.preset = "mirrored"
    /\ Len(SelectSeq(svg, IsArm)) = 4
    /\ Len(SelectSeq(svg, IsJoint)) = 8
    /\ Len(SelectSeq(svg, IsText)) = 2

----------------------------------------------------------------------------
(* C23 *)

\* a step that changes state.N and no other field of state
OnlyNChanges ==
    /\ state'.N # state.N
    /\ state' = [state EXCEPT !.N = state'.N]

\* C23: an input event of the stage-count field that changes N leaves stage0
\* (h, s, the pins A..D, the spans, the rail endpoints, the warnings list) as
\* it was; the stack has as many copies as the loop runs for the new N and
\* totalH is the new N times the same h.
C23_NChangeKeepsStage0 ==
    [][OnlyNChanges =>
           LET before == computeAllOn(state)
               after == computeAllOn(state')
           IN  /\ after.stage0 = before.stage0
               /\ Len(after.stages) = LoopCount(state'.N)
               /\ after.totalH = Times(state'.N, before.stage0.h)]_vars

\* six copies of a stage that has warnings and a height
C23_Witness ==
    /\ state.N = Num(6)
    /\ Len(computeAll.stages) = 6
    /\ Stage0.warnings # <<>>
    /\ Stage0.h > 0
    /\ computeAll.totalH = Times(Num(6), Stage0.h)

----------------------------------------------------------------------------
(* C24 *)

\* m is c reflected about x = 0 with the pin roles swapped
Reflected(c, m) ==
    /\ m.A.x = 0 - c.B.x /\ m.A.y = c.B.y
    /\ m.B.x = 0 - c.A.x /\ m.B.y = c.A.y
    /\ m.C.x = 0 - c.D.x /\ m.C.y = c.D.y
    /\ m.D.x = 0 - c.C.x /\ m.D.y = c.C.y
    /\ m.h = c.h
    /\ m.s = c.s

\* the two results emit their out-of-range warnings for the same rails: as
\* many for the base slider, as many for the top slider, the base slider's
\* before the top slider's
SameRangeWarnings(c, m) ==
    /\ Len(MsgsFor(m.warnings, BaseLeftSlider)) = Len(MsgsFor(c.warnings, BaseRightSlider))
    /\ Len(MsgsFor(m.warnings, TopLeftSlider)) = Len(MsgsFor(c.warnings, TopRightSlider))
    /\ Len(RangeMsgs(m.warnings)) = Len(RangeMsgs(c.warnings))
    /\ \A ws \in {RangeMsgs(c.warnings), RangeMsgs(m.warnings)} :
           \A i, j \in 1 .. Len(ws) : i < j => Rank(ws[i]) < Rank(ws[j])

\* C24 as stated: for the armLength, rail lengths and angle of the current
\* state, the result for mirrored is the result for classic reflected about
\* x = 0 with the pin roles swapped, and the two emit the same number of
\* out-of-range warnings, base slider first.
C24_MirrorAlways ==
    /\ Reflected(StageFor("classic"), StageFor("mirrored"))
    /\ SameRangeWarnings(StageFor("classic"), StageFor("mirrored"))

\* C24 amended: the same, with state.lockX on.
C24_MirrorLockX ==
    state.lockX =>
        /\ Reflected(StageFor("classic"), StageFor("mirrored"))
        /\ SameRangeWarnings(StageFor("classic"), StageFor("mirrored"))

\* unequal rails, a slanted arm and exactly one slider off its rail in each
\* of the two layouts
C24_Witness ==
    /\ state.lockX
    /\ state.base_mm # state.top_mm
    /\ StageFor("classic").s > 0
    /\ StageFor("classic").h > 0
    /\ Len(RangeMsgs(StageFor("classic").warnings)) = 1
    /\ Len(RangeMsgs(StageFor("mirrored").warnings)) = 1
    /\ StageFor("mirrored").A.x = 0 - StageFor("classic").B.x
    /\ StageFor("mirrored").A.x # StageFor("classic").A.x

----------------------------------------------------------------------------
(* C25 *)

\* the labels that describe the vertical-only solve of a preset: "fixed" for
\* the two pins it grounds at their rail ends, "slide" for the two it solves
LabelsOfSolve(preset) ==
    IF preset = "mirrored"
    THEN [baseL |-> "slide", baseR |-> "fixed", topL |-> "slide", topR |-> "fixed"]
    ELSE [baseL |-> "fixed", baseR |-> "slide", topL |-> "fixed", topR |-> "slide"]

\* C25: for classic and mirrored the labels exported in the payload describe
\* the solve: the pins computeStage grounds at their rail ends (A and C for
\* classic, B and D for mirrored) are labeled fixed by constraintsFromPreset
\* and the pins it solves as sliders are labeled slide.
C25_LabelsDescribeSolve ==
    state.lockX /\ state.preset \in {"classic", "mirrored"} =>
        /\ Grounded(Stage0, state.preset, state.base_mm, state.top_mm)
        /\ SlidersAsSolved(Stage0, state.preset)
        /\ updateOutputs.inputs.constraints = LabelsOfSolve(state.preset)
        /\ outputObj.inputs.constraints = LabelsOfSolve(state.preset)

----------------------------------------------------------------------------
(* C26 *)

\* C26 as stated: in the stack of the current state the top pins of every
\* copy are the base pins of the next one, C of copy i = A of copy i+1 and
\* D of copy i = B of copy i+1 in x and in y, whatever the two rail lengths.
C26_StagesConnect ==
    LET stages == computeAll.stages
    IN  \A k \in 1 .. Len(stages) - 1 :
            /\ stages[k].C = stages[k + 1].A
            /\ stages[k].D = stages[k + 1].B

\* C26 amended: the copies connect in y whatever the rail lengths (the top
\* pins of copy i are at the height of the base pins of copy i+1); in x every
\* copy repeats the pins of stage0, so the top pins stand over the base pins
\* of the next copy when state.lockX is on and the two rail lengths are
\* equal.
C26_StagesConnectInY ==
    LET stages == computeAll.stages
    IN  \A k \in 1 .. Len(stages) - 1 :
            /\ stages[k].C.y = stages[k + 1].A.y
            /\ stages[k].D.y = stages[k + 1].B.y
            /\ stages[k].C.x = Stage0.C.x /\ stages[k + 1].A.x = Stage0.A.x
            /\ stages[k].D.x = Stage0.D.x /\ stages[k + 1].B.x = Stage0.B.x
            /\ state.lockX /\ state.base_mm = state.top_mm =>
                   /\ stages[k].C = stages[k + 1].A
                   /\ stages[k].D = stages[k + 1].B

\* three copies of a stage with unequal rails: connected in y, apart in x
C26_Witness ==
    LET stages == computeAll.stages
    IN  /\ state.lockX
        /\ state.base_mm # state.top_mm
        /\ Len(stages) = 3
        /\ Stage0.h > 0
        /\ stages[2].C.y = stages[3].A.y
        /\ stages[2].C.x # stages[3].A.x
        /\ stages[1].D.x # stages[2].B.x

----------------------------------------------------------------------------
(* C28 *)

\* what computeStage returns for the five fields of the current state when
\* state.lockX is the given value
StageWithLockX(lockX) ==
    computeStageOn([state EXCEPT !.lockX = lockX], state.arm_mm, state.base_mm,
                   state.top_mm, state.alphaDeg, state.preset)

\* C28: with state.lockX off computeStage returns the pins of the earlier
\* solver, solved from the label table and recentered so that
\* A.x + B.x + C.x + D.x = 0, and its warnings are those of stageWarnings
\* alone, with no out-of-range warning.
C28_LegacyBranch ==
    ~state.lockX =>
        LET st == Stage0
            cons == constraintsFromPreset(state.preset)
        IN  /\ [xA |-> st.A.x, xB |-> st.B.x, xC |-> st.C.x, xD |-> st.D.x] =
                   legacyPins(cons, st.s, 0 - Half(state.base_mm), Half(state.base_mm),
                              0 - Half(state.top_mm), Half(state.top_mm))
            /\ st.A.x + st.B.x + st.C.x + st.D.x = 0
            /\ RangeMsgs(st.warnings) = <<>>
            /\ st.warnings = stageWarnings(cons)
            /\ st = StageWithLockX(FALSE)

\* lockX unchecked where checking it again, with the five fields as they
\* are, gives other pins and a warnings list with out-of-range warnings
C28_Witness ==
    /\ ~state.lockX
    /\ Stage0 = StageWithLockX(FALSE)
    /\ ~SamePins(StageWithLockX(TRUE), StageWithLockX(FALSE))
    /\ StageWithLockX(TRUE).warnings # StageWithLockX(FALSE).warnings
    /\ RangeMsgs(StageWithLockX(TRUE).warnings) # <<>>
    /\ Stage0.A.x # 0 - Half(state.base_mm)

----------------------------------------------------------------------------
(* C27 *)

\* a step in which the copy button is clicked
CopyClicked == Len(writes') > Len(writes)

\* a step in which an input event is handled
InputHandled == state' # state

====
